---- MODULE Spec2Model ----
(***************************************************************************)
(* Model of three components of the LevelDB write path:                    *)
(*                                                                         *)
(*   - db/skiplist.h : SkipList<Key,Comparator>, one writer running        *)
(*     Insert store by store, one reader thread running Contains and       *)
(*     Iterator operations load by load.  Memory is modelled with the      *)
(*     C++ release/acquire rules: every store of the writer gets a         *)
(*     timestamp, the reader carries the timestamp r_hb up to which the    *)
(*     writer's stores happen-before it, a load may return any store of    *)
(*     the location that is not overwritten by a store the reader is       *)
(*     already ordered after, and an acquire load of a release store       *)
(*     moves r_hb up to that store.                                        *)
(*                                                                         *)
(*   - db/log_writer.cc : log::Writer, AddRecord run call by call on the   *)
(*     WritableFile (Append, Flush), each of which may fail.               *)
(*                                                                         *)
(*   - util/arena.h : Arena, Allocate and AllocateAligned run call by      *)
(*     call.  A char* is a block of the arena and an offset into it.       *)
(***************************************************************************)
EXTENDS Integers, Sequences, FiniteSets, TLC

VARIABLES
    \* ---- SkipList (db/skiplist.h) ----
    node,          \* node store: 0 is head_, 1..n the nodes built by NewNode
    max_height_,   \* history of the stores to max_height_
    clock,         \* number of stores the writer has made (timestamps)
    w_pc,          \* position of the writer inside Insert
    w_key,         \* Insert: key
    w_prev,        \* Insert: Node* prev[kMaxHeight]
    w_height,      \* Insert: height
    w_x,           \* Insert: x (the new node)
    w_i,           \* Insert: i of the linking loop
    r_pc,          \* position of the reader
    r_key,         \* FindGreaterOrEqual: key
    r_x,           \* FindGreaterOrEqual: x
    r_level,       \* FindGreaterOrEqual: level
    r_ret,         \* value returned by the reader's last Contains
    r_hb,          \* stores up to this timestamp happen-before the reader
    r_sure,        \* the Insert of r_key had returned, and happened-before, when
                   \* the reader called Contains
    r_bad,         \* the reader loaded a link or a key no store initialised
    it_node,       \* Iterator::node_
    it_seq,        \* nodes the iterator was positioned on since SeekToFirst
    it_hb0,        \* r_hb when SeekToFirst was called
    \* ---- log::Writer (db/log_writer.cc) ----
    dest_,         \* the WritableFile: the slices appended to it, in order
    dest_length,   \* length the file had when the Writer was constructed
    block_offset_, \* Writer::block_offset_
    l_pc,          \* position of the log writer inside AddRecord
    records,       \* sizes of the slices AddRecord was called with, in call order
    ptr,           \* AddRecord: ptr, as an offset into the slice
    left,          \* AddRecord: left
    begin,         \* AddRecord: begin
    s,             \* AddRecord / EmitPhysicalRecord: Status s
    t,             \* EmitPhysicalRecord: RecordType t
    length,        \* EmitPhysicalRecord: length
    calls,         \* Append and Flush calls of the running AddRecord, with outcome
    frags,         \* EmitPhysicalRecord calls of the running AddRecord
    failed,        \* some Append or Flush of this writer has failed
    \* ---- Arena (util/arena.h) ----
    alloc_ptr_,             \* Arena::alloc_ptr_
    alloc_bytes_remaining_, \* Arena::alloc_bytes_remaining_
    blocks_,                \* Arena::blocks_: the size of each block, in order
    memory_usage_,          \* Arena::memory_usage_
    a_result,               \* pointer the last Allocate or AllocateAligned returned
    allocs,                 \* the calls made: operation, bytes, pointer returned
    \* ---- history of the reader's Contains calls ----
    r_seen                  \* keys for which a Contains has returned true

skipVars == <<node, max_height_, clock, w_pc, w_key, w_prev, w_height, w_x, w_i,
              r_pc, r_key, r_x, r_level, r_ret, r_hb, r_sure, r_bad,
              it_node, it_seq, it_hb0>>

logVars == <<dest_, dest_length, block_offset_, l_pc, records, ptr, left, begin,
             s, t, length, calls, frags, failed>>

arenaVars == <<alloc_ptr_, alloc_bytes_remaining_, blocks_, memory_usage_,
               a_result, allocs>>

vars == <<skipVars, logVars, arenaVars, r_seen>>

\* ------------------------------------------------------------------------
\* Bounds of the model

\* number of distinct keys (keys are 1..NumKeys)
NumKeys == 3

\* largest height RandomHeight samples in the model
HeightCap == 2

\* links (sum of the node heights) the arena has room for
MaxLinks == 5

\* AddRecord calls made on one log writer
MaxRecords == 2

\* Allocate and AllocateAligned calls made on one arena
MaxAllocs == 6

\* ------------------------------------------------------------------------
\* SkipList

kMaxHeight == 12

head_ == 0

nullptr == -1

\* value of a Node* that no store has initialised
Uninit == -2

Keys == 1..NumKeys

Min(a, b) == IF a < b THEN a ELSE b

Max(a, b) == IF a > b THEN a ELSE b

\* the comparator: a total order on the keys, three-way
compare_(a, b) == a - b

Equal(a, b) == compare_(a, b) = 0

\* value of the last store of a history
Latest(h) == h[Len(h)].val

\* a load that may return any store of the location, also one overwritten
\* by a store that happens-before the load
LoadChoices_stale(h, hb) == 1..Len(h)

\* the stores of history h a load may return when the stores up to hb
\* happen-before it: the last of those and every later one; index 0 stands
\* for the uninitialised content, readable when no store is ordered before
LoadChoices(h, hb) ==
    LET before == {j \in 1..Len(h) : h[j].ts <= hb}
    IN  IF before = {}
        THEN 0..Len(h)
        ELSE {j \in 1..Len(h) : \A b \in before : b <= j}

LoadVal(h, j) == IF j = 0 THEN Uninit ELSE h[j].val

\* happens-before after an acquire load that returned store j of h
Acquire(h, j, hb) == IF j > 0 /\ h[j].rel THEN Max(hb, h[j].ts) ELSE hb

GetMaxHeight == Latest(max_height_)

NumNodes == Cardinality(DOMAIN node) - 1

\* Node::SetNext as a relaxed store, for comparison
SetNext_relaxed(nd, n, i, x, ts) ==
    [nd EXCEPT ![n].next_[i] = Append(@, [ts |-> ts, val |-> x, rel |-> FALSE])]

\* Node::SetNext: release store
SetNext(nd, n, i, x, ts) ==
    [nd EXCEPT ![n].next_[i] = Append(@, [ts |-> ts, val |-> x, rel |-> TRUE])]

\* Node::NoBarrier_SetNext: relaxed store
NoBarrier_SetNext(nd, n, i, x, ts) ==
    [nd EXCEPT ![n].next_[i] = Append(@, [ts |-> ts, val |-> x, rel |-> FALSE])]

\* Node::NoBarrier_Next, by the writer: its own last store
NoBarrier_Next(n, i) ==
    IF Len(node[n].next_[i]) = 0 THEN Uninit ELSE Latest(node[n].next_[i])

\* NewNode: the key is set, the height links are left uninitialised
NewNode(key, height, ts) ==
    [key |-> key, key_ts |-> ts, height |-> height, done_ts |-> -1,
     next_ |-> [i \in 0..(height - 1) |-> <<>>]]

\* RandomHeight, the loop from height on when rnd_.OneIn(kBranching) answers
\* true n times in a row:
\*   while (height < kMaxHeight && rnd_.OneIn(kBranching)) height++;
RECURSIVE RandomHeightLoop(_, _)
RandomHeightLoop(height, n) ==
    IF height < kMaxHeight /\ n > 0
    THEN RandomHeightLoop(height + 1, n - 1)
    ELSE height

\* heights RandomHeight can return, OneIn answering true fewer than
\* HeightCap times in a row
RandomHeight == {RandomHeightLoop(1, n) : n \in 0..(HeightCap - 1)}

\* KeyIsAfterNode that also passes a node with an equal key
KeyIsAfterNode_le(key, n) ==
    (n # nullptr) /\ (compare_(node[n].key, key) <= 0)

\* KeyIsAfterNode with the arguments of the comparison exchanged
KeyIsAfterNode_gt(key, n) ==
    (n # nullptr) /\ (compare_(key, node[n].key) < 0)

KeyIsAfterNode(key, n) ==
    (n # nullptr) /\ (compare_(node[n].key, key) < 0)

\* one iteration of the loop of FindGreaterOrEqual, next being the value
\* x->Next(level) returned
FGEStep(key, x, level, next) ==
    IF KeyIsAfterNode(key, next)
    THEN [x |-> next, level |-> level, done |-> FALSE, setprev |-> FALSE, ret |-> nullptr]
    ELSE IF level = 0
         THEN [x |-> x, level |-> level, done |-> TRUE, setprev |-> TRUE, ret |-> next]
         ELSE [x |-> x, level |-> level - 1, done |-> FALSE, setprev |-> TRUE, ret |-> nullptr]

\* FindGreaterOrEqual(key, prev) run by the writer: every load returns the
\* writer's own last store
RECURSIVE FindGreaterOrEqual(_, _, _, _)
FindGreaterOrEqual(key, x, level, prev) ==
    LET step == FGEStep(key, x, level, NoBarrier_Next(x, level))
        p == IF step.setprev THEN [prev EXCEPT ![level] = x] ELSE prev
    IN  IF step.done
        THEN [ret |-> step.ret, prev |-> p]
        ELSE FindGreaterOrEqual(key, step.x, step.level, p)

RECURSIVE SumHeights(_)
SumHeights(n) == IF n = 0 THEN 0 ELSE node[n].height + SumHeights(n - 1)

\* keys whose Insert has returned
Inserted == {node[n].key : n \in {m \in 1..NumNodes : node[m].done_ts >= 0}}

\* keys whose Insert returned before timestamp hb
Known(hb) ==
    {node[n].key : n \in {m \in 1..NumNodes :
                              node[m].done_ts >= 0 /\ node[m].done_ts <= hb}}

SkipInit ==
    /\ node = [n \in {head_} |->
                 [key |-> 0, key_ts |-> 0, height |-> kMaxHeight, done_ts |-> 0,
                  next_ |-> [i \in 0..(kMaxHeight - 1) |->
                                <<[ts |-> 0, val |-> nullptr, rel |-> TRUE]>>]]]
    /\ max_height_ = <<[ts |-> 0, val |-> 1]>>
    /\ clock = 0
    /\ w_pc = "idle"
    /\ w_key = 0
    /\ w_prev = [i \in 0..(kMaxHeight - 1) |-> Uninit]
    /\ w_height = 0
    /\ w_x = nullptr
    /\ w_i = 0
    /\ r_pc = "idle"
    /\ r_key = 0
    /\ r_x = head_
    /\ r_level = 0
    /\ r_ret = FALSE
    /\ r_hb = 0
    /\ r_sure = FALSE
    /\ r_bad = FALSE
    /\ it_node = nullptr
    /\ it_seq = <<>>
    /\ it_hb0 = 0
    /\ r_seen = {}

writerVars == <<node, max_height_, clock, w_pc, w_key, w_prev, w_height, w_x, w_i>>

readerVars == <<r_pc, r_key, r_x, r_level, r_ret, r_hb, r_sure, r_bad,
                it_node, it_seq, it_hb0>>

\* Insert that leaves max_height_ as it is
Insert_Begin_nomax(key, height) ==
    /\ w_pc = "idle"
    /\ key \notin {node[n].key : n \in 1..NumNodes}
    /\ SumHeights(NumNodes) + height <= MaxLinks
    /\ LET f     == FindGreaterOrEqual(key, head_, GetMaxHeight - 1,
                                       [i \in 0..(kMaxHeight - 1) |-> Uninit])
           grows == height > GetMaxHeight
           x     == NumNodes + 1
           ts    == IF grows THEN clock + 2 ELSE clock + 1
       IN  /\ IF f.ret = nullptr THEN TRUE ELSE ~Equal(key, node[f.ret].key)
           /\ w_prev' = [i \in 0..(kMaxHeight - 1) |->
                           IF grows /\ i >= GetMaxHeight /\ i < height
                           THEN head_ ELSE f.prev[i]]
           /\ max_height_' = max_height_
           /\ node' = [n \in 0..x |->
                         IF n = x THEN NewNode(key, height, ts) ELSE node[n]]
           /\ w_x' = x
           /\ clock' = ts
    /\ w_key' = key
    /\ w_height' = height
    /\ w_i' = 0
    /\ w_pc' = "link"

\* Insert that takes head_ for prev[] at every level, whatever the search
\* found
Insert_Begin_front(key, height) ==
    /\ w_pc = "idle"
    /\ key \notin {node[n].key : n \in 1..NumNodes}
    /\ SumHeights(NumNodes) + height <= MaxLinks
    /\ LET grows == height > GetMaxHeight
           x     == NumNodes + 1
           ts    == IF grows THEN clock + 2 ELSE clock + 1
       IN  /\ w_prev' = [i \in 0..(kMaxHeight - 1) |->
                           IF i < Max(height, GetMaxHeight) THEN head_ ELSE Uninit]
           /\ max_height_' = IF grows
                             THEN Append(max_height_, [ts |-> clock + 1, val |-> height])
                             ELSE max_height_
           /\ node' = [n \in 0..x |->
                         IF n = x THEN NewNode(key, height, ts) ELSE node[n]]
           /\ w_x' = x
           /\ clock' = ts
    /\ w_key' = key
    /\ w_height' = height
    /\ w_i' = 0
    /\ w_pc' = "link"

\* Insert, lines 396-419: the search with prev[], the sampled height, prev[]
\* extended to head_ for the new levels, the relaxed store to max_height_
\* when the height grows, and x = NewNode(key, height).  No store of these
\* makes anything new reachable from head_.
Insert_Begin(key, height) ==
    /\ w_pc = "idle"
    /\ key \notin {node[n].key : n \in 1..NumNodes}
    /\ SumHeights(NumNodes) + height <= MaxLinks
    /\ LET f     == FindGreaterOrEqual(key, head_, GetMaxHeight - 1,
                                       [i \in 0..(kMaxHeight - 1) |-> Uninit])
           grows == height > GetMaxHeight
           x     == NumNodes + 1
           ts    == IF grows THEN clock + 2 ELSE clock + 1
       IN  /\ IF f.ret = nullptr THEN TRUE ELSE ~Equal(key, node[f.ret].key)
           /\ w_prev' = [i \in 0..(kMaxHeight - 1) |->
                           IF grows /\ i >= GetMaxHeight /\ i < height
                           THEN head_ ELSE f.prev[i]]
           /\ max_height_' = IF grows
                             THEN Append(max_height_, [ts |-> clock + 1, val |-> height])
                             ELSE max_height_
           /\ node' = [n \in 0..x |->
                         IF n = x THEN NewNode(key, height, ts) ELSE node[n]]
           /\ w_x' = x
           /\ clock' = ts
    /\ w_key' = key
    /\ w_height' = height
    /\ w_i' = 0
    /\ w_pc' = "link"

\* the linking loop run from the top level down
Insert_Link_down ==
    /\ w_pc = "link"
    /\ clock' = clock + 2
    /\ LET l      == w_height - 1 - w_i
           set    == NoBarrier_SetNext(node, w_x, l,
                                       NoBarrier_Next(w_prev[l], l), clock + 1)
           linked == SetNext(set, w_prev[l], l, w_x, clock + 2)
       IN  node' = IF w_i + 1 < w_height
                   THEN linked
                   ELSE [linked EXCEPT ![w_x].done_ts = clock + 2]
    /\ IF w_i + 1 < w_height
       THEN /\ w_i' = w_i + 1
            /\ UNCHANGED <<w_pc, w_key, w_prev, w_height, w_x>>
       ELSE /\ w_pc' = "idle"
            /\ w_key' = 0
            /\ w_prev' = [i \in 0..(kMaxHeight - 1) |-> Uninit]
            /\ w_height' = 0
            /\ w_x' = nullptr
            /\ w_i' = 0
    /\ UNCHANGED max_height_

\* the linking loop that leaves the new node's links null
Insert_Link_nosucc ==
    /\ w_pc = "link"
    /\ clock' = clock + 2
    /\ LET set    == NoBarrier_SetNext(node, w_x, w_i, nullptr, clock + 1)
           linked == SetNext(set, w_prev[w_i], w_i, w_x, clock + 2)
       IN  node' = IF w_i + 1 < w_height
                   THEN linked
                   ELSE [linked EXCEPT ![w_x].done_ts = clock + 2]
    /\ IF w_i + 1 < w_height
       THEN /\ w_i' = w_i + 1
            /\ UNCHANGED <<w_pc, w_key, w_prev, w_height, w_x>>
       ELSE /\ w_pc' = "idle"
            /\ w_key' = 0
            /\ w_prev' = [i \in 0..(kMaxHeight - 1) |-> Uninit]
            /\ w_height' = 0
            /\ w_x' = nullptr
            /\ w_i' = 0
    /\ UNCHANGED max_height_

\* the linking loop that publishes the new node before it sets its link
Insert_Link_publishfirst ==
    /\ w_pc = "link"
    /\ clock' = clock + 2
    /\ LET set    == SetNext(node, w_prev[w_i], w_i, w_x, clock + 1)
           linked == NoBarrier_SetNext(set, w_x, w_i,
                                       NoBarrier_Next(w_prev[w_i], w_i), clock + 2)
       IN  node' = IF w_i + 1 < w_height
                   THEN linked
                   ELSE [linked EXCEPT ![w_x].done_ts = clock + 2]
    /\ IF w_i + 1 < w_height
       THEN /\ w_i' = w_i + 1
            /\ UNCHANGED <<w_pc, w_key, w_prev, w_height, w_x>>
       ELSE /\ w_pc' = "idle"
            /\ w_key' = 0
            /\ w_prev' = [i \in 0..(kMaxHeight - 1) |-> Uninit]
            /\ w_height' = 0
            /\ w_x' = nullptr
            /\ w_i' = 0
    /\ UNCHANGED max_height_

\* Insert, lines 420-425, one iteration of the loop:
\*   x->NoBarrier_SetNext(i, prev[i]->NoBarrier_Next(i)); prev[i]->SetNext(i, x);
\* two stores with their own timestamps, then i++, and the return when i
\* reaches height
Insert_Link ==
    /\ w_pc = "link"
    /\ clock' = clock + 2
    /\ LET set    == NoBarrier_SetNext(node, w_x, w_i,
                                       NoBarrier_Next(w_prev[w_i], w_i), clock + 1)
           linked == SetNext(set, w_prev[w_i], w_i, w_x, clock + 2)
       IN  node' = IF w_i + 1 < w_height
                   THEN linked
                   ELSE [linked EXCEPT ![w_x].done_ts = clock + 2]
    /\ IF w_i + 1 < w_height
       THEN /\ w_i' = w_i + 1
            /\ UNCHANGED <<w_pc, w_key, w_prev, w_height, w_x>>
       ELSE /\ w_pc' = "idle"
            /\ w_key' = 0
            /\ w_prev' = [i \in 0..(kMaxHeight - 1) |-> Uninit]
            /\ w_height' = 0
            /\ w_x' = nullptr
            /\ w_i' = 0
    /\ UNCHANGED max_height_

\* history of next_[i] of node n; a link the node does not have reads as
\* memory no store initialised
Hist(n, i) == IF i \in DOMAIN node[n].next_ THEN node[n].next_[i] ELSE <<>>

\* the reader thread synchronises with the writer outside the list (the
\* mutex that serialises the writes): every store made so far happens-before
\* what the reader does next
Reader_Sync ==
    /\ r_pc = "idle"
    /\ w_pc = "idle"
    /\ r_hb < clock
    /\ r_hb' = clock
    /\ UNCHANGED <<r_pc, r_key, r_x, r_level, r_ret, r_sure, r_bad,
                   it_node, it_seq, it_hb0>>

\* Contains(key), up to the first load of FindGreaterOrEqual: x = head_,
\* level = GetMaxHeight() - 1, a relaxed load of max_height_
Contains_Begin(key, j) ==
    /\ r_pc = "idle"
    /\ j \in LoadChoices(max_height_, r_hb)
    /\ r_pc' = "FindGreaterOrEqual"
    /\ r_key' = key
    /\ r_x' = head_
    /\ r_level' = max_height_[j].val - 1
    /\ r_sure' = (key \in Known(r_hb))
    /\ it_node' = nullptr
    /\ it_seq' = <<>>
    /\ it_hb0' = 0
    /\ UNCHANGED <<r_ret, r_hb, r_bad>>

\* one iteration of the loop of FindGreaterOrEqual run by the reader: the
\* acquire load x->Next(level), the read of next->key in KeyIsAfterNode, and
\* at level 0 the return into Contains (lines 430-435)
Contains_Step(j) ==
    /\ r_pc = "FindGreaterOrEqual"
    /\ LET h    == Hist(r_x, r_level)
           next == LoadVal(h, j)
           hb   == Acquire(h, j, r_hb)
       IN  /\ j \in LoadChoices(h, r_hb)
           /\ r_hb' = hb
           /\ IF next = Uninit \/ (next # nullptr /\ node[next].key_ts > hb)
              THEN /\ r_bad' = TRUE
                   /\ r_pc' = "undefined"
                   /\ UNCHANGED <<r_x, r_level, r_ret>>
              ELSE LET step == FGEStep(r_key, r_x, r_level, next)
                   IN  /\ r_bad' = r_bad
                       /\ r_x' = IF step.done THEN head_ ELSE step.x
                       /\ r_level' = IF step.done THEN 0 ELSE step.level
                       /\ r_pc' = IF step.done THEN "return" ELSE r_pc
                       /\ r_ret' = IF step.done
                                   THEN IF step.ret # nullptr
                                        THEN Equal(r_key, node[step.ret].key)
                                        ELSE FALSE
                                   ELSE r_ret
    /\ UNCHANGED <<r_key, r_sure, it_node, it_seq, it_hb0>>

\* Contains returns to its caller
Contains_Return ==
    /\ r_pc = "return"
    /\ r_pc' = "idle"
    /\ r_key' = 0
    /\ r_ret' = FALSE
    /\ r_sure' = FALSE
    /\ UNCHANGED <<r_x, r_level, r_hb, r_bad, it_node, it_seq, it_hb0>>

\* Iterator::SeekToFirst: node_ = list_->head_->Next(0)
SeekToFirst(j) ==
    /\ r_pc = "idle"
    /\ LET h    == Hist(head_, 0)
           next == LoadVal(h, j)
       IN  /\ j \in LoadChoices(h, r_hb)
           /\ r_hb' = Acquire(h, j, r_hb)
           /\ it_node' = next
           /\ it_seq' = IF next = nullptr THEN <<>> ELSE <<next>>
    /\ it_hb0' = r_hb
    /\ UNCHANGED <<r_pc, r_key, r_x, r_level, r_ret, r_sure, r_bad>>

\* Iterator::Next: node_ = node_->Next(0); REQUIRES Valid()
Iterator_Next(j) ==
    /\ r_pc = "idle"
    /\ it_node # nullptr
    /\ LET h    == Hist(it_node, 0)
           next == LoadVal(h, j)
       IN  /\ j \in LoadChoices(h, r_hb)
           /\ r_hb' = Acquire(h, j, r_hb)
           /\ IF next = Uninit
              THEN /\ r_bad' = TRUE
                   /\ r_pc' = "undefined"
                   /\ UNCHANGED <<it_node, it_seq>>
              ELSE /\ r_bad' = r_bad
                   /\ r_pc' = r_pc
                   /\ it_node' = next
                   /\ it_seq' = IF next = nullptr THEN it_seq ELSE Append(it_seq, next)
    /\ UNCHANGED <<r_key, r_x, r_level, r_ret, r_sure, it_hb0>>

\* Iterator::Valid
Valid == it_node # nullptr

\* FindLessThan that stops only at a key greater than the one given
RECURSIVE FindLessThan_le(_, _, _)
FindLessThan_le(key, x, level) ==
    LET next == NoBarrier_Next(x, level)
    IN  IF (IF next = nullptr THEN TRUE ELSE compare_(node[next].key, key) > 0)
        THEN IF level = 0 THEN x ELSE FindLessThan_le(key, x, level - 1)
        ELSE FindLessThan_le(key, next, level)

\* FindLessThan(key), the loop from x at level, run by the one thread there
\* is: every load returns the last store
RECURSIVE FindLessThan(_, _, _)
FindLessThan(key, x, level) ==
    LET next == NoBarrier_Next(x, level)
    IN  IF (IF next = nullptr THEN TRUE ELSE compare_(node[next].key, key) >= 0)
        THEN IF level = 0 THEN x ELSE FindLessThan(key, x, level - 1)
        ELSE FindLessThan(key, next, level)

\* FindLast(), the loop from x at level, run by the one thread there is
RECURSIVE FindLast(_, _)
FindLast(x, level) ==
    LET next == NoBarrier_Next(x, level)
    IN  IF next = nullptr
        THEN IF level = 0 THEN x ELSE FindLast(x, level - 1)
        ELSE FindLast(next, level)

\* Seek that passes a node whose key equals the target
Seek_strict(target) ==
    /\ r_pc = "idle"
    /\ r_key' = target
    /\ it_hb0' = r_hb
    /\ UNCHANGED <<r_pc, r_x, r_level, r_ret, r_hb, r_sure, r_bad>>
    /\ LET x == FindGreaterOrEqual(target + 1, head_, GetMaxHeight - 1,
                                   [i \in 0..(kMaxHeight - 1) |-> Uninit]).ret
       IN  /\ it_node' = x
           /\ it_seq' = IF x = nullptr THEN <<>> ELSE <<x>>

\* Iterator::Seek: node_ = list_->FindGreaterOrEqual(target, nullptr)
Seek(target) ==
    /\ r_pc = "idle"
    /\ r_key' = target
    /\ it_hb0' = r_hb
    /\ UNCHANGED <<r_pc, r_x, r_level, r_ret, r_hb, r_sure, r_bad>>
    /\ LET x == FindGreaterOrEqual(target, head_, GetMaxHeight - 1,
                                   [i \in 0..(kMaxHeight - 1) |-> Uninit]).ret
       IN  /\ it_node' = x
           /\ it_seq' = IF x = nullptr THEN <<>> ELSE <<x>>

\* SeekToLast that keeps what FindLast returned
SeekToLast_nohead ==
    /\ r_pc = "idle"
    /\ r_key' = 0
    /\ it_hb0' = r_hb
    /\ UNCHANGED <<r_pc, r_x, r_level, r_ret, r_hb, r_sure, r_bad>>
    /\ LET x == FindLast(head_, GetMaxHeight - 1)
       IN  /\ it_node' = x
           /\ it_seq' = <<x>>

\* Iterator::SeekToLast: node_ = list_->FindLast(), nullptr in place of head_
SeekToLast ==
    /\ r_pc = "idle"
    /\ r_key' = 0
    /\ it_hb0' = r_hb
    /\ UNCHANGED <<r_pc, r_x, r_level, r_ret, r_hb, r_sure, r_bad>>
    /\ LET x == FindLast(head_, GetMaxHeight - 1)
           n == IF x = head_ THEN nullptr ELSE x
       IN  /\ it_node' = n
           /\ it_seq' = IF n = nullptr THEN <<>> ELSE <<n>>

\* Iterator::Prev: REQUIRES Valid(); node_ = list_->FindLessThan(node_->key),
\* nullptr in place of head_
Prev ==
    /\ r_pc = "idle"
    /\ Valid
    /\ r_key' = 0
    /\ it_hb0' = r_hb
    /\ UNCHANGED <<r_pc, r_x, r_level, r_ret, r_hb, r_sure, r_bad>>
    /\ LET x == FindLessThan(node[it_node].key, head_, GetMaxHeight - 1)
           n == IF x = head_ THEN nullptr ELSE x
       IN  /\ it_node' = n
           /\ it_seq' = IF n = nullptr THEN <<>> ELSE <<n>>

\* ------------------------------------------------------------------------
\* log::Writer (db/log_writer.cc, db/log_format.h)

kZeroType == 0

kFullType == 1

kFirstType == 2

kMiddleType == 3

kLastType == 4

kBlockSize == 32768

kHeaderSize == 4 + 2 + 1

OK == "OK"

\* sizes of the slices given to AddRecord: empty, short, filling a block
\* to its last byte with and without the header, longer than one and than
\* two blocks
SliceSizes == {0, 1, 2, kBlockSize - kHeaderSize, kBlockSize, 2 * kBlockSize + 1}

\* lengths of the file the writer is constructed on: empty, inside a
\* block, 8, 7, 6 and 1 bytes before the end of a block, on a block
\* boundary, many blocks long
DestLengths == {0, 5, kBlockSize - 8, kBlockSize - 7, kBlockSize - 6, kBlockSize - 1,
                2 * kBlockSize, 1000 * kBlockSize + kBlockSize - 3}

\* number of bytes appended to the file by the chunks q
RECURSIVE Size(_)
Size(q) == IF q = <<>> THEN 0 ELSE Head(q).size + Size(Tail(q))

\* the trailer appended with the whole literal, whatever is left in the block
TrailerSlice_full(leftover) ==
    [kind |-> "trailer", size |-> kHeaderSize - 1, rec |-> 0, off |-> 0,
     crc |-> <<>>, lo |-> 0, hi |-> 0, type |-> 0]

\* the slice appended as the trailer: leftover bytes of "\x00\x00\x00\x00\x00\x00"
TrailerSlice(leftover) ==
    [kind |-> "trailer", size |-> leftover, rec |-> 0, off |-> 0,
     crc |-> <<>>, lo |-> 0, hi |-> 0, type |-> 0]

\* the header with the two length bytes exchanged
HeaderSlice_bigendian(type, rec, off, len) ==
    [kind |-> "header", size |-> kHeaderSize, rec |-> rec, off |-> off,
     crc |-> <<type, rec, off, len>>,
     lo |-> (len \div 256) % 256, hi |-> len % 256, type |-> type]

\* buf of EmitPhysicalRecord: the masked crc of the type and the payload
\* (kept as what it is computed over), buf[4] = length & 0xff,
\* buf[5] = length >> 8, buf[6] = t, each a char
HeaderSlice(type, rec, off, len) ==
    [kind |-> "header", size |-> kHeaderSize, rec |-> rec, off |-> off,
     crc |-> <<type, rec, off, len>>,
     lo |-> len % 256, hi |-> (len \div 256) % 256, type |-> type]

\* Slice(ptr, length): length bytes of slice rec from offset off
DataSlice(rec, off, len) ==
    [kind |-> "data", size |-> len, rec |-> rec, off |-> off,
     crc |-> <<>>, lo |-> 0, hi |-> 0, type |-> 0]

\* avail of AddRecord that keeps room for a second header in the block
Avail_short(offset) == kBlockSize - offset - 2 * kHeaderSize

\* avail of AddRecord with one byte too many
Avail_plus1(offset) == kBlockSize - offset - kHeaderSize + 1

\* AddRecord, line 74: avail
Avail(offset) == kBlockSize - offset - kHeaderSize

\* the fragment type chosen as if every fragment were the first and last
FragmentType_full(b, e) == kFullType

\* AddRecord, lines 78-89: the type of the fragment
FragmentType(b, e) ==
    IF b /\ e THEN kFullType
    ELSE IF b THEN kFirstType
    ELSE IF e THEN kLastType
    ELSE kMiddleType

\* Writer::Writer(dest): the file is empty
Writer1 ==
    /\ dest_length = 0
    /\ block_offset_ = 0

\* the second constructor starting at the head of a block, as the first does
Writer2_zero(len) ==
    /\ dest_length = len
    /\ block_offset_ = 0

\* Writer::Writer(dest, dest_length)
Writer2(len) ==
    /\ dest_length = len
    /\ block_offset_ = len % kBlockSize

LogIdle ==
    /\ dest_ = <<>>
    /\ l_pc = "idle"
    /\ records = <<>>
    /\ ptr = 0
    /\ left = 0
    /\ begin = FALSE
    /\ s = OK
    /\ t = kZeroType
    /\ length = 0
    /\ calls = <<>>
    /\ frags = <<>>
    /\ failed = FALSE

\* AddRecord with a while loop in place of the do-while
AddRecord_Begin_while(size) ==
    /\ l_pc = "idle"
    /\ Len(records) < MaxRecords
    /\ records' = Append(records, size)
    /\ ptr' = 0
    /\ left' = size
    /\ s' = OK
    /\ begin' = TRUE
    /\ calls' = <<>>
    /\ frags' = <<>>
    /\ l_pc' = IF size > 0 THEN "loop" ELSE "return"
    /\ UNCHANGED <<dest_, dest_length, block_offset_, t, length, failed>>

\* AddRecord, lines 38-48: the call
AddRecord_Begin(size) ==
    /\ l_pc = "idle"
    /\ Len(records) < MaxRecords
    /\ records' = Append(records, size)
    /\ ptr' = 0
    /\ left' = size
    /\ s' = OK
    /\ begin' = TRUE
    /\ calls' = <<>>
    /\ frags' = <<>>
    /\ l_pc' = "loop"
    /\ UNCHANGED <<dest_, dest_length, block_offset_, t, length, failed>>

\* the head of an iteration that also leaves a block in which exactly
\* kHeaderSize bytes are left
AddRecord_Fragment_switch7(ok) ==
    /\ l_pc = "loop"
    /\ LET leftover == kBlockSize - block_offset_
           pad      == leftover <= kHeaderSize /\ leftover > 0
           offset   == IF leftover <= kHeaderSize THEN 0 ELSE block_offset_
           avail    == Avail(offset)
           fragment_length == IF left < avail THEN left ELSE avail
           end      == (left = fragment_length)
       IN  /\ pad \/ ok
           /\ block_offset_' = offset
           /\ dest_' = IF pad /\ ok THEN Append(dest_, TrailerSlice(leftover)) ELSE dest_
           /\ calls' = IF pad
                       THEN Append(calls, [op |-> "Append", what |-> "trailer",
                                           size |-> leftover, ok |-> ok])
                       ELSE calls
           /\ failed' = (failed \/ ~ok)
           /\ t' = FragmentType(begin, end)
           /\ length' = fragment_length
           /\ frags' = Append(frags, [type |-> FragmentType(begin, end),
                                      length |-> fragment_length,
                                      offset |-> offset,
                                      padded |-> IF pad THEN leftover ELSE 0])
    /\ l_pc' = "header"
    /\ UNCHANGED <<dest_length, records, ptr, left, begin, s>>

\* AddRecord, lines 52-92, the head of one iteration: the trailer when
\* fewer than kHeaderSize bytes are left in the block (an Append whose
\* Status is dropped), fragment_length and type, and the call of
\* EmitPhysicalRecord
AddRecord_Fragment(ok) ==
    /\ l_pc = "loop"
    /\ LET leftover == kBlockSize - block_offset_
           pad      == leftover < kHeaderSize /\ leftover > 0
           offset   == IF leftover < kHeaderSize THEN 0 ELSE block_offset_
           avail    == Avail(offset)
           fragment_length == IF left < avail THEN left ELSE avail
           end      == (left = fragment_length)
       IN  /\ pad \/ ok
           /\ block_offset_' = offset
           /\ dest_' = IF pad /\ ok THEN Append(dest_, TrailerSlice(leftover)) ELSE dest_
           /\ calls' = IF pad
                       THEN Append(calls, [op |-> "Append", what |-> "trailer",
                                           size |-> leftover, ok |-> ok])
                       ELSE calls
           /\ failed' = (failed \/ ~ok)
           /\ t' = FragmentType(begin, end)
           /\ length' = fragment_length
           /\ frags' = Append(frags, [type |-> FragmentType(begin, end),
                                      length |-> fragment_length,
                                      offset |-> offset,
                                      padded |-> IF pad THEN leftover ELSE 0])
    /\ l_pc' = "header"
    /\ UNCHANGED <<dest_length, records, ptr, left, begin, s>>

\* EmitPhysicalRecord, line 133: s = dest_->Append(Slice(buf, kHeaderSize))
Emit_AppendHeader(ok) ==
    /\ l_pc = "header"
    /\ dest_' = IF ok THEN Append(dest_, HeaderSlice(t, Len(records), ptr, length))
                ELSE dest_
    /\ calls' = Append(calls, [op |-> "Append", what |-> "header",
                               size |-> kHeaderSize, ok |-> ok])
    /\ s' = IF ok THEN OK ELSE "IOError: Append header"
    /\ failed' = (failed \/ ~ok)
    /\ l_pc' = IF ok THEN "payload" ELSE "emitted"
    /\ UNCHANGED <<dest_length, block_offset_, records, ptr, left, begin, t, length, frags>>

\* EmitPhysicalRecord returning after the payload without the Flush
Emit_AppendPayload_noflush(ok) ==
    /\ l_pc = "payload"
    /\ dest_' = IF ok THEN Append(dest_, DataSlice(Len(records), ptr, length))
                ELSE dest_
    /\ calls' = Append(calls, [op |-> "Append", what |-> "payload",
                               size |-> length, ok |-> ok])
    /\ s' = IF ok THEN OK ELSE "IOError: Append payload"
    /\ failed' = (failed \/ ~ok)
    /\ l_pc' = "emitted"
    /\ UNCHANGED <<dest_length, block_offset_, records, ptr, left, begin, t, length, frags>>

\* EmitPhysicalRecord, line 135: s = dest_->Append(Slice(ptr, length))
Emit_AppendPayload(ok) ==
    /\ l_pc = "payload"
    /\ dest_' = IF ok THEN Append(dest_, DataSlice(Len(records), ptr, length))
                ELSE dest_
    /\ calls' = Append(calls, [op |-> "Append", what |-> "payload",
                               size |-> length, ok |-> ok])
    /\ s' = IF ok THEN OK ELSE "IOError: Append payload"
    /\ failed' = (failed \/ ~ok)
    /\ l_pc' = IF ok THEN "flush" ELSE "emitted"
    /\ UNCHANGED <<dest_length, block_offset_, records, ptr, left, begin, t, length, frags>>

\* EmitPhysicalRecord, line 137: s = dest_->Flush()
Emit_Flush(ok) ==
    /\ l_pc = "flush"
    /\ calls' = Append(calls, [op |-> "Flush", what |-> "", size |-> 0, ok |-> ok])
    /\ s' = IF ok THEN OK ELSE "IOError: Flush"
    /\ failed' = (failed \/ ~ok)
    /\ l_pc' = "emitted"
    /\ UNCHANGED <<dest_, dest_length, block_offset_, records, ptr, left, begin, t, length,
                   frags>>

\* EmitPhysicalRecord that advances block_offset_ only when its writes
\* succeeded
Emit_Return_okonly ==
    /\ l_pc = "emitted"
    /\ block_offset_' = IF s = OK THEN block_offset_ + kHeaderSize + length
                        ELSE block_offset_
    /\ ptr' = ptr + length
    /\ left' = left - length
    /\ begin' = FALSE
    /\ l_pc' = IF s = OK /\ left - length > 0 THEN "loop" ELSE "return"
    /\ UNCHANGED <<dest_, dest_length, records, s, t, length, calls, frags, failed>>

\* the return from EmitPhysicalRecord after which ptr and left stay as they
\* were
Emit_Return_stuck ==
    /\ l_pc = "emitted"
    /\ block_offset_' = block_offset_ + kHeaderSize + length
    /\ ptr' = ptr
    /\ left' = left
    /\ begin' = FALSE
    /\ l_pc' = IF s = OK /\ left - length > 0 THEN "loop" ELSE "return"
    /\ UNCHANGED <<dest_, dest_length, records, s, t, length, calls, frags, failed>>

\* block_offset_ advanced by what is left of the slice, not by the fragment
Emit_Return_left ==
    /\ l_pc = "emitted"
    /\ block_offset_' = block_offset_ + kHeaderSize + left
    /\ ptr' = ptr + length
    /\ left' = left - length
    /\ begin' = FALSE
    /\ l_pc' = IF s = OK /\ left - length > 0 THEN "loop" ELSE "return"
    /\ UNCHANGED <<dest_, dest_length, records, s, t, length, calls, frags, failed>>

\* EmitPhysicalRecord, lines 140-141, and AddRecord, lines 92-104:
\* block_offset_ += kHeaderSize + length; ptr, left and begin move on, and
\* the loop goes on while s.ok() && left > 0
Emit_Return ==
    /\ l_pc = "emitted"
    /\ block_offset_' = block_offset_ + kHeaderSize + length
    /\ ptr' = ptr + length
    /\ left' = left - length
    /\ begin' = FALSE
    /\ l_pc' = IF s = OK /\ left - length > 0 THEN "loop" ELSE "return"
    /\ UNCHANGED <<dest_, dest_length, records, s, t, length, calls, frags, failed>>

\* AddRecord, line 105: return s
AddRecord_Return ==
    /\ l_pc = "return"
    /\ l_pc' = "idle"
    /\ UNCHANGED <<dest_, dest_length, block_offset_, records, ptr, left, begin, s, t,
                   length, calls, frags, failed>>

\* ------------------------------------------------------------------------
\* Arena

\* size of a standard block of the arena
kArenaBlockSize == 4096

\* alignment AllocateAligned gives
align == 8

\* a char*: the block it points into and the byte offset inside the block
Ptr(blk, off) == [blk |-> blk, off |-> off]

\* the null char*
ArenaNull == Ptr(0, 0)

\* requests made of the arena: one byte, just under a quarter of a block,
\* more than a block
AllocSizes == {1, 1023, 5000}

\* Arena::Arena(): no block, nothing left
Arena ==
    /\ alloc_ptr_ = ArenaNull
    /\ alloc_bytes_remaining_ = 0
    /\ blocks_ = <<>>
    /\ memory_usage_ = 0
    /\ a_result = ArenaNull
    /\ allocs = <<>>

\* MemoryUsage(): memory_usage_.load(std::memory_order_relaxed)
MemoryUsage == memory_usage_

\* AllocateNewBlock: a fresh block of block_bytes bytes is taken from the
\* memory source, kept in blocks_ and counted in memory_usage_
AllocateNewBlock(block_bytes) ==
    /\ blocks_' = Append(blocks_, block_bytes)
    /\ memory_usage_' = memory_usage_ + block_bytes

\* AllocateFallback: a request of at least a quarter of a block gets a block
\* of its own and the current block stays in use; a smaller one gets the
\* start of a new standard block, which becomes the current block
AllocateFallback(bytes) ==
    IF bytes >= kArenaBlockSize \div 4
    THEN /\ AllocateNewBlock(Max(bytes, kArenaBlockSize))
         /\ a_result' = Ptr(Len(blocks_) + 1, 0)
         /\ UNCHANGED <<alloc_ptr_, alloc_bytes_remaining_>>
    ELSE /\ AllocateNewBlock(kArenaBlockSize)
         /\ a_result' = Ptr(Len(blocks_) + 1, 0)
         /\ alloc_ptr_' = Ptr(Len(blocks_) + 1, bytes)
         /\ alloc_bytes_remaining_' = kArenaBlockSize - bytes

\* Allocate that hands out the bump pointer and leaves it where it is
Allocate_nobump(bytes) ==
    /\ bytes > 0
    /\ Len(allocs) < MaxAllocs
    /\ IF bytes <= alloc_bytes_remaining_
       THEN /\ a_result' = alloc_ptr_
            /\ alloc_ptr_' = alloc_ptr_
            /\ alloc_bytes_remaining_' = alloc_bytes_remaining_ - bytes
            /\ UNCHANGED <<blocks_, memory_usage_>>
       ELSE AllocateFallback(bytes)
    /\ allocs' = Append(allocs, [op |-> "Allocate", bytes |-> bytes, p |-> a_result'])

\* Arena::Allocate, lines 65-77
Allocate(bytes) ==
    /\ bytes > 0
    /\ Len(allocs) < MaxAllocs
    /\ IF bytes <= alloc_bytes_remaining_
       THEN /\ a_result' = alloc_ptr_
            /\ alloc_ptr_' = Ptr(alloc_ptr_.blk, alloc_ptr_.off + bytes)
            /\ alloc_bytes_remaining_' = alloc_bytes_remaining_ - bytes
            /\ UNCHANGED <<blocks_, memory_usage_>>
       ELSE AllocateFallback(bytes)
    /\ allocs' = Append(allocs, [op |-> "Allocate", bytes |-> bytes, p |-> a_result'])

\* bytes from alloc_ptr_ up to the next multiple of align (a block starts on
\* a multiple of align)
Slop ==
    IF alloc_ptr_.off % align = 0 THEN 0 ELSE align - (alloc_ptr_.off % align)

\* Arena::AllocateAligned: the bump pointer is rounded up to a multiple of
\* align before the bytes are carved
AllocateAligned(bytes) ==
    /\ bytes > 0
    /\ Len(allocs) < MaxAllocs
    /\ LET needed == bytes + Slop
       IN  IF needed <= alloc_bytes_remaining_
           THEN /\ a_result' = Ptr(alloc_ptr_.blk, alloc_ptr_.off + Slop)
                /\ alloc_ptr_' = Ptr(alloc_ptr_.blk, alloc_ptr_.off + needed)
                /\ alloc_bytes_remaining_' = alloc_bytes_remaining_ - needed
                /\ UNCHANGED <<blocks_, memory_usage_>>
           ELSE AllocateFallback(bytes)
    /\ allocs' = Append(allocs, [op |-> "AllocateAligned", bytes |-> bytes,
                                 p |-> a_result'])

\* ------------------------------------------------------------------------
\* Specifications

\* the skip list, one writer and one reader thread
Init == SkipInit /\ Writer1 /\ LogIdle /\ Arena

Next ==
    \/ \E key \in Keys, height \in RandomHeight :
          Insert_Begin(key, height) /\ UNCHANGED <<readerVars, logVars, arenaVars, r_seen>>
    \/ Insert_Link /\ UNCHANGED <<readerVars, logVars, arenaVars, r_seen>>
    \/ Reader_Sync /\ UNCHANGED <<writerVars, logVars, arenaVars, r_seen>>
    \/ \E key \in Keys, j \in 1..Len(max_height_) :
          Contains_Begin(key, j) /\ UNCHANGED <<writerVars, logVars, arenaVars, r_seen>>
    \/ \E j \in 0..NumKeys : Contains_Step(j) /\ UNCHANGED <<writerVars, logVars, arenaVars, r_seen>>
    \/ Contains_Return /\ UNCHANGED <<writerVars, logVars, arenaVars, r_seen>>
    \/ \E j \in 0..(NumKeys + 1) : SeekToFirst(j) /\ UNCHANGED <<writerVars, logVars, arenaVars, r_seen>>
    \/ \E j \in 0..NumKeys : Iterator_Next(j) /\ UNCHANGED <<writerVars, logVars, arenaVars, r_seen>>

Spec == Init /\ [][Next]_vars

\* One thread alone: it runs Insert to its end before anything else, and
\* each of its loads sees its own last store
SeqFrame ==
    /\ r_hb' = clock'
    /\ UNCHANGED <<r_pc, r_key, r_x, r_level, r_ret, r_sure, r_bad, it_node, it_seq, it_hb0>>
    /\ UNCHANGED <<logVars, arenaVars, r_seen>>

SeqNext ==
    \/ \E key \in Keys, height \in RandomHeight :
          r_pc = "idle" /\ Insert_Begin(key, height) /\ SeqFrame
    \/ Insert_Link /\ SeqFrame
    \/ \E key \in Keys, j \in 1..Len(max_height_) :
          w_pc = "idle" /\ Contains_Begin(key, j) /\ UNCHANGED <<writerVars, logVars, arenaVars, r_seen>>
    \/ \E j \in 0..NumKeys : Contains_Step(j) /\ UNCHANGED <<writerVars, logVars, arenaVars, r_seen>>
    \/ Contains_Return /\ UNCHANGED <<writerVars, logVars, arenaVars, r_seen>>
    \/ \E j \in 0..(NumKeys + 1) :
          w_pc = "idle" /\ SeekToFirst(j) /\ UNCHANGED <<writerVars, logVars, arenaVars, r_seen>>
    \/ \E j \in 0..NumKeys :
          w_pc = "idle" /\ Iterator_Next(j) /\ UNCHANGED <<writerVars, logVars, arenaVars, r_seen>>

SeqSpec == Init /\ [][SeqNext]_vars

\* the log writer, constructed on a file of any of the lengths
LogInit ==
    /\ SkipInit
    /\ LogIdle
    /\ Arena
    /\ \/ Writer1
       \/ \E len \in DestLengths \ {0} : Writer2(len)

LogNext ==
    \/ \E size \in SliceSizes : AddRecord_Begin(size) /\ UNCHANGED <<skipVars, arenaVars, r_seen>>
    \/ \E ok \in BOOLEAN : AddRecord_Fragment(ok) /\ UNCHANGED <<skipVars, arenaVars, r_seen>>
    \/ \E ok \in BOOLEAN : Emit_AppendHeader(ok) /\ UNCHANGED <<skipVars, arenaVars, r_seen>>
    \/ \E ok \in BOOLEAN : Emit_AppendPayload(ok) /\ UNCHANGED <<skipVars, arenaVars, r_seen>>
    \/ \E ok \in BOOLEAN : Emit_Flush(ok) /\ UNCHANGED <<skipVars, arenaVars, r_seen>>
    \/ Emit_Return /\ UNCHANGED <<skipVars, arenaVars, r_seen>>
    \/ AddRecord_Return /\ UNCHANGED <<skipVars, arenaVars, r_seen>>

LogSpec == LogInit /\ [][LogNext]_vars

\* the steps of a running AddRecord
AddRecord_Run ==
    \/ \E ok \in BOOLEAN : AddRecord_Fragment(ok) /\ UNCHANGED <<skipVars, arenaVars, r_seen>>
    \/ \E ok \in BOOLEAN : Emit_AppendHeader(ok) /\ UNCHANGED <<skipVars, arenaVars, r_seen>>
    \/ \E ok \in BOOLEAN : Emit_AppendPayload(ok) /\ UNCHANGED <<skipVars, arenaVars, r_seen>>
    \/ \E ok \in BOOLEAN : Emit_Flush(ok) /\ UNCHANGED <<skipVars, arenaVars, r_seen>>
    \/ Emit_Return /\ UNCHANGED <<skipVars, arenaVars, r_seen>>
    \/ AddRecord_Return /\ UNCHANGED <<skipVars, arenaVars, r_seen>>

\* slices given to AddRecord where its termination is checked: empty, one
\* byte, filling a block to its last byte, longer than two blocks
LiveSizes == {0, 1, kBlockSize - kHeaderSize, 2 * kBlockSize + 1}

LogLiveNext ==
    \/ \E size \in LiveSizes : AddRecord_Begin(size) /\ UNCHANGED <<skipVars, arenaVars, r_seen>>
    \/ AddRecord_Run

\* the log writer whose thread keeps running once it is inside AddRecord:
\* every Append and Flush returns, with success or failure
LogLiveSpec == LogInit /\ [][LogLiveNext]_vars /\ WF_vars(AddRecord_Run)

\* keys of the iterator's specification: those of the scenario of the spec
IterKeys == {1, 3, 5, 9}

\* targets of Seek: below every key, between two keys, a key, above every
\* key
Targets == {0, 4, 5, 10}

\* the skip list used from one thread through its Iterator
IterNext ==
    \/ \E key \in IterKeys, height \in RandomHeight :
          Insert_Begin(key, height) /\ SeqFrame
    \/ Insert_Link /\ SeqFrame
    \/ \E target \in Targets :
          w_pc = "idle" /\ Seek(target) /\ UNCHANGED <<writerVars, logVars, arenaVars, r_seen>>
    \/ \E j \in 0..Len(Hist(head_, 0)) :
          w_pc = "idle" /\ SeekToFirst(j) /\ UNCHANGED <<writerVars, logVars, arenaVars, r_seen>>
    \/ w_pc = "idle" /\ SeekToLast /\ UNCHANGED <<writerVars, logVars, arenaVars, r_seen>>
    \/ \E j \in 0..(IF Valid THEN Len(Hist(it_node, 0)) ELSE 0) :
          w_pc = "idle" /\ Iterator_Next(j) /\ UNCHANGED <<writerVars, logVars, arenaVars, r_seen>>
    \/ w_pc = "idle" /\ Prev /\ UNCHANGED <<writerVars, logVars, arenaVars, r_seen>>

IterSpec == Init /\ [][IterNext]_vars

\* the skip list, one writer and one reader thread that calls Contains
\* again and again; r_seen keeps the keys a call has found
ContainsNext ==
    \/ \E key \in Keys, height \in RandomHeight :
          Insert_Begin(key, height) /\ UNCHANGED <<readerVars, logVars, arenaVars, r_seen>>
    \/ Insert_Link /\ UNCHANGED <<readerVars, logVars, arenaVars, r_seen>>
    \/ Reader_Sync /\ UNCHANGED <<writerVars, logVars, arenaVars, r_seen>>
    \/ \E key \in Keys, j \in 1..Len(max_height_) :
          Contains_Begin(key, j) /\ UNCHANGED <<writerVars, logVars, arenaVars, r_seen>>
    \/ \E j \in 0..NumKeys :
          /\ Contains_Step(j)
          /\ r_seen' = IF r_pc' = "return" /\ r_ret' THEN r_seen \cup {r_key} ELSE r_seen
          /\ UNCHANGED <<writerVars, logVars, arenaVars>>
    \/ Contains_Return /\ UNCHANGED <<writerVars, logVars, arenaVars, r_seen>>

ContainsSpec == Init /\ [][ContainsNext]_vars

\* the arena, used by one thread
ArenaNext ==
    \/ \E bytes \in AllocSizes : Allocate(bytes) /\ UNCHANGED <<skipVars, logVars, r_seen>>
    \/ \E bytes \in AllocSizes : AllocateAligned(bytes) /\ UNCHANGED <<skipVars, logVars, r_seen>>

ArenaSpec == Init /\ [][ArenaNext]_vars

\* ------------------------------------------------------------------------
\* Properties of the skip list

\* keys of every node NewNode has built, linked or not
AllocatedKeys == {node[n].key : n \in 1..NumNodes}

\* the keys of set S in increasing order of the comparator
RECURSIVE SortedSeq(_)
SortedSeq(S) ==
    IF S = {} THEN <<>>
    ELSE LET m == CHOOSE a \in S : \A b \in S : compare_(a, b) <= 0
         IN  <<m>> \o SortedSeq(S \ {m})

\* keys of a sequence of nodes
KeySeq(q) == [i \in 1..Len(q) |-> node[q[i]].key]

\* the nodes of the level-L list: the nodes met from head_ by the last
\* stored next_[L] links; a link no store initialised ends it with Uninit
RECURSIVE ListFrom(_, _, _)
ListFrom(n, L, fuel) ==
    LET next == NoBarrier_Next(n, L)
    IN  IF next = nullptr THEN <<>>
        ELSE IF next = Uninit \/ fuel = 0 THEN <<Uninit>>
        ELSE <<next>> \o ListFrom(next, L, fuel - 1)

LevelList(L) == ListFrom(head_, L, NumNodes)

StrictlyIncreasing(q) ==
    /\ \A i \in 1..Len(q) : q[i] \in 1..NumNodes
    /\ \A i \in 1..Len(q), j \in 1..Len(q) :
          i < j => compare_(node[q[i]].key, node[q[j]].key) < 0

RECURSIVE IsSubsequence(_, _)
IsSubsequence(a, b) ==
    IF a = <<>> THEN TRUE
    ELSE IF b = <<>> THEN FALSE
    ELSE IF Head(a) = Head(b) THEN IsSubsequence(Tail(a), Tail(b))
    ELSE IsSubsequence(a, Tail(b))

\* C1: single writer, no concurrency: after any sequence of Inserts of
\* distinct keys, with any sampled heights, Contains(k) returns true for
\* every inserted key and false for every key that was not inserted.
C1_ContainsExact ==
    r_pc = "return" => (r_ret <=> r_key \in Inserted)

C1_Witness ==
    /\ r_pc = "return"
    /\ r_ret
    /\ Cardinality(Inserted) = 3
    /\ GetMaxHeight = 2
    /\ r_key = 2

\* C2: after any sequence of Inserts of distinct keys, the iterator
\* positioned by SeekToFirst and advanced by Next until it is invalid has
\* visited exactly the inserted keys, each once, in strictly increasing
\* order (no Insert between the SeekToFirst and the end).
C2_IterationSorted ==
    (w_pc = "idle" /\ it_node = nullptr /\ it_hb0 = clock)
        => KeySeq(it_seq) = SortedSeq(Inserted)

C2_Witness ==
    /\ w_pc = "idle"
    /\ it_node = nullptr
    /\ it_hb0 = clock
    /\ Len(it_seq) = 3
    /\ it_seq # <<1, 2, 3>>

\* C3: in every state, the states inside an Insert included, every
\* level-L list from head_ is strictly increasing, and for L >= 1 it is a
\* subsequence of the level L-1 list.
C3_LevelsSortedNested ==
    \A L \in 0..(kMaxHeight - 1) :
        /\ StrictlyIncreasing(LevelList(L))
        /\ L >= 1 => IsSubsequence(LevelList(L), LevelList(L - 1))

\* a node is linked at level 0 between two others while it is not yet
\* linked at level 1, where one of its neighbours is
C3_Witness ==
    /\ w_pc = "link"
    /\ w_i = 1
    /\ Len(LevelList(0)) = 3
    /\ LevelList(0)[2] = w_x
    /\ Len(LevelList(1)) = 1

\* C4: with the writer inside Insert at any store and the reader inside
\* Contains or an iterator operation at any load, the reader never loads a
\* link, nor reads a key, that the writer's stores have not initialised
\* for it: the node it stands on has its key, and the link it is about to
\* load, set by stores that happen-before the reader.
C4_ReaderSeesInitialised ==
    /\ ~r_bad
    /\ r_pc = "FindGreaterOrEqual" =>
          /\ r_x \in 0..NumNodes
          /\ node[r_x].key_ts <= r_hb
          /\ r_level \in DOMAIN node[r_x].next_
          /\ Len(node[r_x].next_[r_level]) > 0
          /\ node[r_x].next_[r_level][1].ts <= r_hb
    /\ it_node # nullptr =>
          /\ it_node \in 1..NumNodes
          /\ node[it_node].key_ts <= r_hb
          /\ Len(node[it_node].next_[0]) > 0
          /\ node[it_node].next_[0][1].ts <= r_hb

\* the reader stands on the node the writer is still linking
C4_Witness ==
    /\ w_pc = "link"
    /\ r_pc = "FindGreaterOrEqual"
    /\ r_x = w_x
    /\ w_i < w_height

\* C5: a Contains(k) interleaved with the writer's Inserts returns true
\* when the Insert of k had returned before Contains was called, and false
\* when k was not inserted; also when the reader starts at a level that
\* max_height_ already counts and head_ does not link yet.
C5_ConcurrentContains ==
    r_pc = "return" =>
        /\ r_sure => r_ret
        /\ r_key \notin AllocatedKeys => ~r_ret

\* Contains(k), k inserted before, is at head_ on a level the running
\* Insert has added to max_height_ and not linked yet
C5_Witness ==
    /\ r_pc = "FindGreaterOrEqual"
    /\ r_sure
    /\ r_x = head_
    /\ r_level >= 1
    /\ NoBarrier_Next(head_, r_level) = nullptr
    /\ w_pc = "link"

\* ------------------------------------------------------------------------
\* Properties of the log writer

\* file position at which chunk i of dest_ starts
RECURSIVE StartOf(_)
StartOf(i) == IF i = 1 THEN dest_length ELSE StartOf(i - 1) + dest_[i - 1].size

FileEnd == dest_length + Size(dest_)

\* the chunk of dest_ that holds the byte at file position pos, 0 past the end
ChunkAt(pos) ==
    LET holds == {i \in 1..Len(dest_) : StartOf(i) <= pos /\ pos < StartOf(i) + dest_[i].size}
    IN  IF holds = {} THEN 0 ELSE CHOOSE i \in holds : TRUE

\* the n bytes of the file from position pos, as the pieces of the appended
\* slices they come from
RECURSIVE Bytes(_, _)
Bytes(pos, n) ==
    IF n = 0 THEN <<>>
    ELSE LET i == ChunkAt(pos)
         IN  IF i = 0 THEN <<[kind |-> "eof", rec |-> 0, off |-> 0, size |-> n]>>
             ELSE LET m == Min(n, StartOf(i) + dest_[i].size - pos)
                  IN  <<[kind |-> dest_[i].kind, rec |-> dest_[i].rec,
                         off |-> dest_[i].off + (pos - StartOf(i)), size |-> m]>>
                      \o Bytes(pos + m, n - m)

\* pieces q with each run of consecutive bytes of one slice made one piece
RECURSIVE Merge(_)
Merge(q) ==
    IF Len(q) < 2 THEN q
    ELSE LET a == q[1]
             b == q[2]
         IN  IF a.kind = b.kind /\ a.rec = b.rec /\ a.off + a.size = b.off
             THEN Merge(<<[a EXCEPT !.size = a.size + b.size]>> \o SubSeq(q, 3, Len(q)))
             ELSE <<a>> \o Merge(Tail(q))

\* what the decoder gives in place of a record it cannot decode
Bad(why) == <<[kind |-> why, rec |-> 0, off |-> 0, size |-> 0]>>

\* The reference decoder of the format (spec section 6): the file read from
\* position pos on, a header at a time; fewer than kHeaderSize bytes left in
\* a block are trailer and skipped; a header gives the payload length
\* (little-endian in its bytes 4 and 5) and the type (byte 6); Full is a
\* record, First..Middle..Last are joined into one.  part is the record
\* being joined when inrec, out the records decoded.
RECURSIVE Decode(_, _, _, _)
Decode(pos, inrec, part, out) ==
    LET blockLeft == kBlockSize - (pos % kBlockSize)
        i         == ChunkAt(pos)
    IN  IF pos >= FileEnd THEN
            IF inrec THEN Append(out, Bad("unfinished")) ELSE out
        ELSE IF blockLeft < kHeaderSize THEN Decode(pos + blockLeft, inrec, part, out)
        ELSE IF i = 0 THEN Append(out, Bad("bad header"))
        ELSE IF dest_[i].kind # "header" \/ StartOf(i) # pos THEN
            Append(out, Bad("bad header"))
        ELSE LET len     == dest_[i].lo + 256 * dest_[i].hi
                 payload == Bytes(pos + kHeaderSize, len)
                 after   == pos + kHeaderSize + len
             IN  IF kHeaderSize + len > blockLeft THEN Append(out, Bad("bad length"))
                 ELSE IF dest_[i].type = kFullType /\ ~inrec THEN
                     Decode(after, FALSE, <<>>, Append(out, Merge(payload)))
                 ELSE IF dest_[i].type = kFirstType /\ ~inrec THEN
                     Decode(after, TRUE, payload, out)
                 ELSE IF dest_[i].type = kMiddleType /\ inrec THEN
                     Decode(after, TRUE, part \o payload, out)
                 ELSE IF dest_[i].type = kLastType /\ inrec THEN
                     Decode(after, FALSE, <<>>, Append(out, Merge(part \o payload)))
                 ELSE Append(out, Bad("bad type"))

\* the slices AddRecord was called with, each as one piece
Original ==
    [k \in 1..Len(records) |->
        IF records[k] = 0 THEN <<>>
        ELSE <<[kind |-> "data", rec |-> k, off |-> 0, size |-> records[k]]>>]

\* the headers in the file, with the place and the length they declare
Headers == {i \in 1..Len(dest_) : dest_[i].kind = "header"}

DeclaredLength(i) == dest_[i].lo + 256 * dest_[i].hi

InEmit == l_pc \in {"header", "payload", "flush", "emitted"}

\* C6: whatever the length of the file at construction and the AddRecord
\* calls, at each EmitPhysicalRecord block_offset_ + kHeaderSize + length
\* <= kBlockSize; and, while no Append has failed, every header in the file
\* and the payload it declares lie inside one block of the file.
C6_FragmentInsideBlock ==
    /\ InEmit => /\ block_offset_ >= 0
                 /\ block_offset_ + kHeaderSize + length <= kBlockSize
    /\ ~failed =>
          \A i \in Headers :
              (StartOf(i) % kBlockSize) + kHeaderSize + DeclaredLength(i) <= kBlockSize

\* a fragment that ends on the last byte of its block
C6_Witness ==
    /\ InEmit
    /\ block_offset_ > 0
    /\ length > 0
    /\ block_offset_ + kHeaderSize + length = kBlockSize

\* C7: when no Append or Flush has failed, the file decodes, block by block
\* with the trailers skipped, to the slices AddRecord was called with, byte
\* for byte and in call order.
C7_RoundTrip ==
    (l_pc = "idle" /\ ~failed) => Decode(dest_length, FALSE, <<>>, <<>>) = Original

\* an empty record and one longer than two blocks have been written to a
\* file that began 6 bytes before a block boundary
C7_Witness ==
    /\ l_pc = "idle"
    /\ ~failed
    /\ dest_length = kBlockSize - 6
    /\ records = <<0, 2 * kBlockSize + 1>>

FragmentTypes == [i \in 1..Len(frags) |-> frags[i].type]

\* C8: an AddRecord that returns OK has emitted one Full fragment, or one
\* First, then Middles, then one Last; no fragment has type 0, and the first
\* fragment of a call is never a Middle or a Last.
C8_TypeSequence ==
    /\ \A i \in 1..Len(frags) : frags[i].type # kZeroType
    /\ Len(frags) >= 1 => frags[1].type \in {kFullType, kFirstType}
    /\ (l_pc = "return" /\ s = OK) =>
          \/ FragmentTypes = <<kFullType>>
          \/ /\ Len(frags) >= 2
             /\ frags[1].type = kFirstType
             /\ frags[Len(frags)].type = kLastType
             /\ \A i \in 2..(Len(frags) - 1) : frags[i].type = kMiddleType

C8_Witness ==
    /\ l_pc = "return"
    /\ s = OK
    /\ FragmentTypes = <<kFirstType, kMiddleType, kMiddleType, kLastType>>

\* the fragments in the file: place of the header, type, declared length
FragmentsInFile ==
    LET hs == SortedSeq(Headers)
    IN  [k \in 1..Len(hs) |-> [pos |-> StartOf(hs[k]), type |-> dest_[hs[k]].type,
                               len |-> DeclaredLength(hs[k])]]

\* C9: every AddRecord emits at least one fragment; for an empty slice it
\* emits exactly one, of type Full and length 0; AddRecord("") and then
\* AddRecord("ab") on an empty log leave two Full fragments of lengths 0 and
\* 2 with their headers at file offsets 0 and 7.
C9_EmptyRecord ==
    /\ l_pc = "return" => Len(frags) >= 1
    /\ (l_pc = "return" /\ records[Len(records)] = 0) =>
          /\ Len(frags) = 1
          /\ frags[1].type = kFullType
          /\ frags[1].length = 0
    /\ (l_pc = "idle" /\ ~failed /\ dest_length = 0 /\ records = <<0, 2>>) =>
          FragmentsInFile = <<[pos |-> 0, type |-> kFullType, len |-> 0],
                              [pos |-> 7, type |-> kFullType, len |-> 2]>>

C9_Witness ==
    /\ l_pc = "idle"
    /\ ~failed
    /\ dest_length = 0
    /\ records = <<0, 2>>
    /\ Len(dest_) = 4

\* C10: after an Append or Flush of an AddRecord call has failed, the
\* trailer's Append included, the call makes no other Append or Flush and
\* returns the failure; it returns OK only when each of them succeeded.
C10_FailureAborts ==
    /\ \A i \in 1..(Len(calls) - 1) : calls[i].ok
    /\ l_pc = "return" => (s = OK <=> \A i \in 1..Len(calls) : calls[i].ok)

\* the calls made to the file in this AddRecord, the trailer's left out
FragmentCalls == SelectSeq(calls, LAMBDA c : c.what # "trailer")

\* C11: the calls of a fragment are Append(header), Append(payload), Flush
\* in this order; a fragment's Flush comes before any Append of the next
\* fragment and before AddRecord returns; Flush is called only after both
\* Appends of its fragment succeeded.
C11_AppendAppendFlush ==
    /\ \A i \in 1..Len(FragmentCalls) :
          LET c == FragmentCalls
          IN  /\ c[i].what = "header" =>
                    IF i = 1 THEN TRUE ELSE c[i - 1].op = "Flush" /\ c[i - 1].ok
              /\ c[i].what = "payload" =>
                    IF i = 1 THEN FALSE ELSE c[i - 1].what = "header" /\ c[i - 1].ok
              /\ c[i].op = "Flush" =>
                    IF i < 3 THEN FALSE
                    ELSE /\ c[i - 1].what = "payload" /\ c[i - 1].ok
                         /\ c[i - 2].what = "header" /\ c[i - 2].ok
    /\ \A i \in 2..Len(calls) :
          calls[i].what = "trailer" => calls[i - 1].op = "Flush" /\ calls[i - 1].ok
    /\ (l_pc \in {"loop", "return"} /\ s = OK /\ Len(frags) >= 1) =>
          /\ Len(calls) >= 1
          /\ calls[Len(calls)].op = "Flush"
          /\ Cardinality({i \in 1..Len(calls) : calls[i].op = "Flush"}) = Len(frags)

\* AddRecord returns OK after a trailer and three fragments
C11_Witness ==
    /\ l_pc = "return"
    /\ s = OK
    /\ Len(frags) = 3
    /\ calls[1].what = "trailer"
    /\ Len(calls) = 10

\* C12 as stated: between operations 0 <= block_offset_ < kBlockSize
C12_OffsetBelowBlockSize ==
    l_pc = "idle" => (0 <= block_offset_ /\ block_offset_ < kBlockSize)

\* C12 amended: between operations (after construction and after every
\* AddRecord return, failed or not) 0 <= block_offset_ <= kBlockSize;
\* block_offset_ = kBlockSize after a fragment that ends on the last byte of
\* its block.
C12_OffsetWithinBlock ==
    l_pc = "idle" => (0 <= block_offset_ /\ block_offset_ <= kBlockSize)

C12_Witness ==
    /\ l_pc = "idle"
    /\ Len(records) >= 1
    /\ block_offset_ = kBlockSize

\* C13: at the head of a fragment step a trailer is appended if and only if
\* 1 to 6 bytes are left in the block; it is that many zero bytes, and
\* block_offset_ becomes 0; with 7 bytes or more left nothing is appended
\* and block_offset_ stays, so that the header goes into the current block.
C13_TrailerPadding ==
    [][l_pc = "loop" =>
          LET leftover == kBlockSize - block_offset_
          IN  /\ (leftover >= 1 /\ leftover <= 6) =>
                    /\ Len(calls') = Len(calls) + 1
                    /\ calls'[Len(calls')].what = "trailer"
                    /\ calls'[Len(calls')].size = leftover
                    /\ calls'[Len(calls')].ok =>
                          /\ Len(dest_') = Len(dest_) + 1
                          /\ dest_'[Len(dest_')].kind = "trailer"
                          /\ dest_'[Len(dest_')].size = leftover
                    /\ block_offset_' = 0
              /\ leftover >= kHeaderSize =>
                    /\ calls' = calls
                    /\ dest_' = dest_
                    /\ block_offset_' = block_offset_
              /\ leftover = 0 =>
                    /\ calls' = calls
                    /\ dest_' = dest_
                    /\ block_offset_' = 0]_vars

\* a trailer of 6 bytes has just been appended before the second fragment
C13_Witness ==
    /\ l_pc = "header"
    /\ block_offset_ = 0
    /\ Len(dest_) >= 1
    /\ dest_[Len(dest_)].kind = "trailer"
    /\ dest_[Len(dest_)].size = 6

\* C14: Writer(dest, dest_length) starts with block_offset_ = dest_length
\* mod kBlockSize, and while no Append or Flush has failed the place in the
\* file of each header, dest_length plus the bytes appended, is congruent to
\* block_offset_ modulo kBlockSize when the header is appended.
C14_ResumeAligned ==
    /\ (records = <<>> /\ l_pc = "idle") => block_offset_ = dest_length % kBlockSize
    /\ (~failed /\ l_pc \in {"idle", "loop", "header", "return"}) =>
          FileEnd % kBlockSize = block_offset_ % kBlockSize
    /\ (~failed /\ l_pc = "header") => FileEnd % kBlockSize = block_offset_

\* the header of a second record is due, in a file resumed 3 bytes before
\* the end of its 1001st block
C14_Witness ==
    /\ l_pc = "header"
    /\ ~failed
    /\ dest_length = 1000 * kBlockSize + kBlockSize - 3
    /\ Len(records) = 2
    /\ block_offset_ > 0

\* ------------------------------------------------------------------------
\* Properties of the Iterator

\* least and greatest key of a set of keys that is not empty
MinKey(S) == CHOOSE k \in S : \A m \in S : compare_(k, m) <= 0

MaxKey(S) == CHOOSE k \in S : \A m \in S : compare_(k, m) >= 0

\* C15: Seek(target) leaves the iterator on the node with the smallest
\* inserted key >= target, and invalid exactly when every inserted key is
\* < target (the empty list included).
C15_SeekFirstGreaterOrEqual ==
    [][\A target \in Targets :
          Seek(target) =>
              LET ge == {k \in Inserted : compare_(k, target) >= 0}
              IN  IF ge = {} THEN it_node' = nullptr
                  ELSE /\ it_node' \in 1..NumNodes
                       /\ node[it_node'].key = MinKey(ge)]_vars

\* 5, 1, 9, 3 were inserted in this order and Seek(4) has left the iterator
\* on 5
C15_Witness ==
    /\ w_pc = "idle"
    /\ NumNodes = 4
    /\ <<node[1].key, node[2].key, node[3].key, node[4].key>> = <<5, 1, 9, 3>>
    /\ r_key = 4
    /\ Valid
    /\ it_seq = <<it_node>>
    /\ node[it_node].key = 5

\* C16: after SeekToFirst and after SeekToLast the iterator is valid if and
\* only if the list is not empty; it is then on the least inserted key after
\* SeekToFirst and on the greatest after SeekToLast, and never on head_.
C16_SeekToFirstLast ==
    [][/\ (\E j \in 0..Len(Hist(head_, 0)) : SeekToFirst(j)) =>
              /\ it_node' # head_
              /\ (it_node' # nullptr) <=> (Inserted # {})
              /\ it_node' # nullptr =>
                    /\ it_node' \in 1..NumNodes
                    /\ node[it_node'].key = MinKey(Inserted)
       /\ SeekToLast =>
              /\ it_node' # head_
              /\ (it_node' # nullptr) <=> (Inserted # {})
              /\ it_node' # nullptr =>
                    /\ it_node' \in 1..NumNodes
                    /\ node[it_node'].key = MaxKey(Inserted)]_vars

\* SeekToLast has left the iterator on 9, the last node being a short one
\* behind a tall one
C16_Witness ==
    /\ w_pc = "idle"
    /\ Inserted = {1, 5, 9}
    /\ r_key = 0
    /\ Valid
    /\ it_seq = <<it_node>>
    /\ node[it_node].key = 9
    /\ node[it_node].height = 1
    /\ GetMaxHeight = 2

\* C17: Prev from a valid iterator on key c leaves it on the greatest
\* inserted key < c, and invalid exactly when c is the least key; so Prev
\* after a Next that reached a node, nothing inserted since, leads back.
C17_PrevGreatestLess ==
    [][Prev =>
          LET c  == node[it_node].key
              lt == {k \in Inserted : compare_(k, c) < 0}
          IN  /\ IF lt = {} THEN it_node' = nullptr
                 ELSE /\ it_node' \in 1..NumNodes
                      /\ node[it_node'].key = MaxKey(lt)
              /\ (it_node' = nullptr) <=> (c = MinKey(Inserted))
              /\ (Len(it_seq) >= 2 /\ it_hb0 = clock) =>
                    it_node' = it_seq[Len(it_seq) - 1]]_vars

\* 5, 1, 9, 3 were inserted in this order and Prev from 9 has left the
\* iterator on 5
C17_Witness ==
    /\ w_pc = "idle"
    /\ NumNodes = 4
    /\ <<node[1].key, node[2].key, node[3].key, node[4].key>> = <<5, 1, 9, 3>>
    /\ r_key = 0
    /\ Valid
    /\ it_seq = <<it_node>>
    /\ node[it_node].key = 5

\* ------------------------------------------------------------------------
\* Properties of Insert

\* the nodes of the level-L list, as a set
Linked(L) == {LevelList(L)[i] : i \in 1..Len(LevelList(L))}

\* height of the tallest node linked into the list, 1 for the empty list
TallestLinked ==
    LET hs == {node[n].height : n \in Linked(0) \cap (1..NumNodes)} \cup {1}
    IN  CHOOSE h \in hs : \A g \in hs : g <= h

\* the values stored to max_height_ never go down and lie in 1..kMaxHeight,
\* as do the heights RandomHeight gives however often OneIn answers true
MaxHeightGrowsInRange ==
    /\ \A i \in 1..Len(max_height_) :
          /\ max_height_[i].val >= 1
          /\ max_height_[i].val <= kMaxHeight
          /\ i > 1 => max_height_[i - 1].val <= max_height_[i].val
    /\ \A n \in 0..(kMaxHeight + 2) :
          /\ RandomHeightLoop(1, n) >= 1
          /\ RandomHeightLoop(1, n) <= kMaxHeight

\* C18 as stated: in every reachable state max_height_ never went down,
\* lies in 1..12 and is the height of the tallest node linked into the list
C18_MaxHeightEqualsTallest ==
    /\ MaxHeightGrowsInRange
    /\ GetMaxHeight = TallestLinked

\* C18 amended: max_height_ never goes down and lies in 1..12; whenever no
\* Insert is running it is the height of the tallest node linked into the
\* list (1 for the empty list); while Insert runs it is the greater of that
\* and the height of the node being inserted, which Insert stores before it
\* links the node.
C18_MaxHeightConsistent ==
    /\ MaxHeightGrowsInRange
    /\ w_pc = "idle" => GetMaxHeight = TallestLinked
    /\ w_pc = "link" => GetMaxHeight = Max(TallestLinked, w_height)

\* Insert has raised max_height_ to 2 and not yet linked the node, behind
\* two nodes of height 1
C18_Witness ==
    /\ w_pc = "link"
    /\ w_i = 0
    /\ w_height = 2
    /\ GetMaxHeight = 2
    /\ TallestLinked = 1
    /\ Len(LevelList(0)) = 2

\* max_height_ before the running Insert stored to it
OldMaxHeight ==
    IF /\ Len(max_height_) >= 2
       /\ max_height_[Len(max_height_)].ts = node[w_x].key_ts - 1
    THEN max_height_[Len(max_height_) - 1].val
    ELSE GetMaxHeight

\* C20: Insert links the new node at the levels 0..height-1 in ascending
\* order; at level i the node's next_[i] gets, by a relaxed store (the first
\* store to it), what prev[i]->next_[i] held, before prev[i]->next_[i] gets
\* the node by a release store (a later store to that link); prev[i] is the
\* last node of level i with a smaller key, head_ for the levels from the
\* old max_height_ up.  So the node is reachable at level
\* i only when it is reachable at every level below.
C20_InsertLinksBottomUp ==
    /\ \A n \in 1..NumNodes : \A i \in 0..(node[n].height - 1) :
          \A p \in DOMAIN node : \A k \in 2..Len(Hist(p, i)) :
              Hist(p, i)[k].val = n =>
                  /\ Hist(p, i)[k].rel
                  /\ p = head_ \/ compare_(node[p].key, node[n].key) < 0
                  /\ Len(node[n].next_[i]) >= 1
                  /\ ~node[n].next_[i][1].rel
                  /\ node[n].next_[i][1].ts < Hist(p, i)[k].ts
                  /\ node[n].next_[i][1].val = Hist(p, i)[k - 1].val
                  /\ i >= 1 =>
                        \E q \in DOMAIN node : \E m \in 2..Len(Hist(q, i - 1)) :
                            /\ Hist(q, i - 1)[m].val = n
                            /\ Hist(q, i - 1)[m].ts < node[n].next_[i][1].ts
    /\ w_pc = "link" =>
          \A i \in 0..(w_height - 1) :
              /\ (w_x \in Linked(i)) <=> (i < w_i)
              /\ i >= w_i =>
                    LET next == NoBarrier_Next(w_prev[i], i)
                    IN  /\ w_prev[i] = head_ \/ w_prev[i] \in Linked(i)
                        /\ w_prev[i] = head_ \/ compare_(node[w_prev[i]].key, w_key) < 0
                        /\ IF next = nullptr THEN TRUE
                           ELSE next \in 1..NumNodes /\ compare_(node[next].key, w_key) > 0
              /\ i >= OldMaxHeight => w_prev[i] = head_

\* a node of height 2 that raises max_height_ from 1 is linked at level 0,
\* between two nodes, and not yet at level 1
C20_Witness ==
    /\ w_pc = "link"
    /\ w_i = 1
    /\ w_height = 2
    /\ OldMaxHeight = 1
    /\ w_prev[0] # head_
    /\ NoBarrier_Next(w_x, 0) # nullptr
    /\ w_x \in Linked(0)
    /\ w_x \notin Linked(1)

\* ------------------------------------------------------------------------
\* Properties of the arena

\* the byte ranges [p, p + bytes) of two calls have a byte in common
Overlap(a, b) ==
    /\ a.p.blk = b.p.blk
    /\ a.p.off < b.p.off + b.bytes
    /\ b.p.off < a.p.off + a.bytes

\* the ranges returned lie inside blocks of the arena and no two of them
\* have a byte in common
RangesDisjoint(as) ==
    /\ \A i \in 1..Len(as) :
          /\ as[i].p.blk \in 1..Len(blocks_')
          /\ as[i].p.off >= 0
          /\ as[i].p.off + as[i].bytes <= blocks_'[as[i].p.blk]
    /\ \A i, j \in 1..Len(as) : i < j => ~Overlap(as[i], as[j])

C21_IteratorUnderInserts ==
    [][(it_node' # it_node \/ it_seq' # it_seq) =>
          /\ StrictlyIncreasing(it_seq')
          /\ node' = node
          /\ it_node' # nullptr => it_node' \in Linked(0)
          /\ (/\ it_node # nullptr
              /\ it_seq' = it_seq \/ it_seq' = Append(it_seq, it_node')) =>
                 \A n \in 1..NumNodes :
                     (/\ node[n].done_ts >= 0
                      /\ node[n].done_ts <= r_hb
                      /\ compare_(node[n].key, node[it_node].key) > 0) =>
                         /\ it_node' \in 1..NumNodes
                         /\ compare_(node[it_node'].key, node[n].key) <= 0
      ]_vars

\* the iterator, two nodes yielded, stands on the node of height 2 the
\* writer has linked at level 0 only, and a greater key is in the list whose
\* Insert returned and happened before
C21_Witness ==
    /\ w_pc = "link"
    /\ w_i = 1
    /\ w_height = 2
    /\ Len(it_seq) = 2
    /\ it_node = w_x
    /\ \E n \in 1..NumNodes :
          /\ node[n].done_ts >= 0
          /\ node[n].done_ts <= r_hb
          /\ compare_(node[n].key, node[it_node].key) > 0

\* ------------------------------------------------------------------------
\* Properties of the loop of AddRecord

\* payload bytes carried by the first k fragments of the running AddRecord
RECURSIVE Consumed(_)
Consumed(k) == IF k = 0 THEN 0 ELSE frags[k].length + Consumed(k - 1)

\* ptr and left account for the fragments emitted: each iteration moves ptr
\* on, and left down, by the length of its fragment
LoopAccounts ==
    Len(records) > 0 =>
        /\ ptr + left = records[Len(records)]
        /\ ptr = Consumed(IF InEmit THEN Len(frags) - 1 ELSE Len(frags))
        /\ left >= 0

\* iteration i found exactly kHeaderSize bytes left in the block and emitted
\* an empty fragment that fills it; the iteration after it, if there is one,
\* starts a new block without padding and carries payload
EmptyFill(i) ==
    /\ frags[i].length = 0
    /\ frags[i].offset = kBlockSize - kHeaderSize
    /\ i < Len(frags) =>
          /\ frags[i + 1].offset = 0
          /\ frags[i + 1].padded = 0
          /\ frags[i + 1].length >= 1

\* every AddRecord that was called returns
AddRecordTerminates == (l_pc # "idle") ~> (l_pc = "idle")

\* C22 as stated: every AddRecord terminates, and each iteration of its loop
\* consumes at least one payload byte or is an empty fragment that fills a
\* block with exactly 7 bytes left
C22_EveryIterationConsumes ==
    /\ [](/\ LoopAccounts
          /\ \A i \in 1..Len(frags) : frags[i].length >= 1 \/ EmptyFill(i))
    /\ AddRecordTerminates

\* C22 amended: every AddRecord terminates for every payload length and
\* every starting block offset, whether or not Append or Flush fail: each
\* iteration of its loop consumes at least one payload byte, or is the one
\* iteration of a call with an empty payload, or (exactly 7 bytes left in
\* the block) emits an empty fragment that fills the block, after which the
\* next iteration starts a new block and consumes payload.
C22_AddRecordTerminates ==
    /\ [](/\ LoopAccounts
          /\ \A i \in 1..Len(frags) :
                \/ frags[i].length >= 1
                \/ EmptyFill(i)
                \/ records[Len(records)] = 0 /\ Len(frags) = 1)
    /\ AddRecordTerminates

\* a slice longer than two blocks, given to a writer with 7 bytes left in the
\* block, has been written in four iterations, the first of them empty, and
\* AddRecord is back at its caller
C22_Witness ==
    /\ l_pc = "idle"
    /\ s = OK
    /\ Len(frags) = 4
    /\ frags[1].length = 0
    /\ frags[2].length = kBlockSize - kHeaderSize
    /\ left = 0
    /\ ptr = 2 * kBlockSize + 1

\* ------------------------------------------------------------------------
\* Properties of the fragments of one record

\* iteration i of the running AddRecord is over: EmitPhysicalRecord returned
Emitted(i) == i < Len(frags) \/ ~InEmit

\* C23: every fragment of type First or Middle ends exactly at a block
\* boundary, block_offset_ being kBlockSize once it is emitted; every Middle
\* and Last fragment starts at block offset 0 with no padding written before
\* it; each fragment carries min(remaining payload, kBlockSize -
\* block_offset_ - 7) bytes, block_offset_ taken where avail is computed.
C23_FragmentsFillBlocks ==
    \A i \in 1..Len(frags) :
        /\ frags[i].type \in {kFirstType, kMiddleType} =>
              /\ frags[i].offset + kHeaderSize + frags[i].length = kBlockSize
              /\ (Emitted(i) /\ i = Len(frags)) => block_offset_ = kBlockSize
              /\ i < Len(frags) => frags[i + 1].type \in {kMiddleType, kLastType}
        /\ frags[i].type \in {kMiddleType, kLastType} =>
              /\ i > 1
              /\ frags[i - 1].type \in {kFirstType, kMiddleType}
              /\ frags[i].offset = 0
              /\ frags[i].padded = 0
        /\ frags[i].length =
              Min(records[Len(records)] - Consumed(i - 1),
                  kBlockSize - frags[i].offset - kHeaderSize)

\* a slice longer than two blocks written from block offset 5 as a First, a
\* Middle and a Last fragment
C23_Witness ==
    /\ l_pc = "return"
    /\ s = OK
    /\ Len(frags) = 3
    /\ frags[1].type = kFirstType
    /\ frags[1].offset = 5
    /\ frags[2].type = kMiddleType
    /\ frags[3].type = kLastType
    /\ block_offset_ = 27

\* the fragments of a record whose first fragment was emitted with exactly
\* kHeaderSize bytes left in the block: an empty First one, no Full one,
\* Middle and Last ones from the head of the next block on; when AddRecord
\* returns ok they carry the whole slice and the empty First header is in
\* the file
EmptyFirstThenRest ==
    (/\ Len(frags) >= 1
     /\ records[Len(records)] > 0
     /\ frags[1].offset = kBlockSize - kHeaderSize) =>
        /\ frags[1].type = kFirstType
        /\ frags[1].length = 0
        /\ frags[1].padded = 0
        /\ \A i \in 1..Len(frags) : frags[i].type # kFullType
        /\ \A i \in 2..Len(frags) :
              /\ frags[i].type \in {kMiddleType, kLastType}
              /\ frags[i].length >= 1
        /\ Len(frags) >= 2 => frags[2].offset = 0 /\ frags[2].padded = 0
        /\ (l_pc = "return" /\ s = OK) =>
              /\ Len(frags) >= 2
              /\ frags[Len(frags)].type = kLastType
              /\ Consumed(Len(frags)) = records[Len(records)]
              /\ \E k \in 1..Len(dest_) :
                    /\ dest_[k] = HeaderSlice(kFirstType, Len(records), 0, 0)
                    /\ k + 2 <= Len(dest_)
                    /\ dest_[k + 1] = DataSlice(Len(records), 0, 0)
                    /\ dest_[k + 2].kind = "header"
                    /\ dest_[k + 2].type \in {kMiddleType, kLastType}

\* C24: when exactly 7 bytes are left in the block and AddRecord is called
\* with a non-empty slice, the first fragment is emitted in those 7 bytes: a
\* First fragment of length 0 that fills the block; no fragment of the
\* record is a Full one, and the whole slice follows as Middle and Last
\* fragments from the head of the next block on.
C24_EmptyFirstFragment ==
    [][/\ (/\ l_pc = "loop"
           /\ Len(frags) = 0
           /\ left > 0
           /\ block_offset_ = kBlockSize - kHeaderSize) =>
              /\ Len(frags') = 1
              /\ frags'[1].offset = kBlockSize - kHeaderSize
              /\ block_offset_' = block_offset_
              /\ dest_' = dest_
       /\ EmptyFirstThenRest'
      ]_vars

\* a slice of one byte given to a writer with 7 bytes left in the block has
\* been written as an empty First fragment and a Last fragment of one byte
C24_Witness ==
    /\ l_pc = "return"
    /\ s = OK
    /\ records[Len(records)] = 1
    /\ Len(frags) = 2
    /\ frags[1].offset = kBlockSize - kHeaderSize
    /\ frags[2].type = kLastType
    /\ block_offset_ = kHeaderSize + 1

\* ------------------------------------------------------------------------
\* Properties of the block offset after a failure

\* C25: EmitPhysicalRecord advances block_offset_ by kHeaderSize + length
\* also when its Append or Flush failed, and the head of an iteration sets
\* block_offset_ to 0 also when the Append of the trailer failed; AddRecord
\* takes block_offset_ as the last call left it and emits its first fragment
\* from there.  Without a failure block_offset_ is the end of the file
\* modulo kBlockSize whenever AddRecord returns; after a failure it may
\* differ.
C25_OffsetAdvancesOnFailure ==
    [][/\ l_pc = "emitted" =>
             block_offset_' = block_offset_ + kHeaderSize + length
       /\ (l_pc = "loop" /\ kBlockSize - block_offset_ < kHeaderSize) =>
             block_offset_' = 0
       /\ (l_pc = "idle" /\ l_pc' = "loop") => block_offset_' = block_offset_
       /\ (l_pc = "loop" /\ Len(frags) = 0) =>
             /\ Len(frags') = 1
             /\ frags'[1].offset = IF kBlockSize - block_offset_ < kHeaderSize
                                   THEN 0 ELSE block_offset_
       /\ (l_pc' = "return" /\ ~failed') =>
             block_offset_' % kBlockSize = FileEnd' % kBlockSize
      ]_vars

\* the Append of a header failed, block_offset_ moved on all the same, and
\* the next AddRecord is emitting its first fragment from the advanced
\* offset, which is not where the file ends
C25_Witness ==
    /\ l_pc = "header"
    /\ Len(records) = 2
    /\ Len(frags) = 1
    /\ failed
    /\ Len(dest_) = 0
    /\ frags[1].padded = 0
    /\ frags[1].offset = block_offset_
    /\ block_offset_ # FileEnd % kBlockSize
    /\ block_offset_ = (dest_length % kBlockSize) + kHeaderSize + records[1]

\* ------------------------------------------------------------------------
\* Membership over time

\* the nodes met from node n of the node store nd by the last stored
\* next_[0] links
RECURSIVE ReachableIn(_, _, _)
ReachableIn(nd, n, fuel) ==
    LET h    == nd[n].next_[0]
        next == IF Len(h) = 0 THEN Uninit ELSE h[Len(h)].val
    IN  IF next \in 1..(Cardinality(DOMAIN nd) - 1) /\ fuel > 0
        THEN {next} \cup ReachableIn(nd, next, fuel - 1)
        ELSE {}

\* C26: a node reachable from head_ at level 0 stays reachable in every
\* later state and its key never changes; once a Contains(k) has returned
\* true, every Contains(k) called after that return, with the writer's
\* Inserts interleaved at any store, returns true.
C26_MembershipMonotone ==
    [][/\ node' # node =>
             /\ ReachableIn(node, head_, NumNodes) \subseteq
                   ReachableIn(node', head_, NumNodes + 1)
             /\ \A n \in 1..NumNodes : node'[n].key = node[n].key
       /\ r_seen \subseteq r_seen'
       /\ (r_pc = "FindGreaterOrEqual" /\ r_pc' = "return" /\ r_key \in r_seen) => r_ret'
      ]_vars

\* Contains(k) has returned true while the Insert of k, a node of height 2,
\* had linked level 0 only; the reader has called Contains(k) again and
\* searches at level 1, where k is not linked yet
C26_Witness ==
    /\ r_pc = "FindGreaterOrEqual"
    /\ r_key \in r_seen
    /\ r_level = 1
    /\ w_pc = "link"
    /\ w_i = 1
    /\ w_key = r_key

====
